---- MODULE Spec2Model ----
(***************************************************************************)
(* A model of the snake game of src/main.rs: the wrap-around grid          *)
(* arithmetic, the Snake update, the clock gate and food respawn of        *)
(* GameState::update, and the direction guard of key_down_event.           *)
(***************************************************************************)
EXTENDS Integers, Sequences, FiniteSets, TLC

(***************************************************************************)
(* Program constants.                                                      *)
(***************************************************************************)
\* const GRID_SIZE: (i16, i16) = (30, 20)
GRID_SIZE == <<30, 20>>

\* const UPDATES_PER_SECOND: f32 = 8.0
UPDATES_PER_SECOND == 8

\* (1.0 / UPDATES_PER_SECOND * 1000.0) as u64: 0.125 * 1000.0 = 125.0, cut to 125
MILLIS_PER_UPDATE == 1000 \div UPDATES_PER_SECOND

\* the range of i16
I16_MIN == -32768
I16_MAX == 32767

(***************************************************************************)
(* Bounds of the model.                                                    *)
(***************************************************************************)
\* width and height of the scaled-down grid the game is explored on
GridW == 4
GridH == 3

\* an update that would grow the body beyond MaxBody segments is not followed,
\* unless it ends the game: the body never changes after that
MaxBody == 3

\* the clock is followed up to MaxIntervals tick intervals past last_update
MaxIntervals == 2

\* modulo is evaluated on -MaxX..MaxX (and the ends of i16) and on 1..MaxN
MaxX == 70
MaxN == 31

\* on the 30 x 20 grid the session is followed for Horizon updates of the snake
Horizon == 1

MaxElapsed == MaxIntervals * MILLIS_PER_UPDATE

(***************************************************************************)
(* Values.                                                                 *)
(***************************************************************************)
Directions == {"Up", "Down", "Left", "Right"}

\* ggez KeyCode: the four arrows, and one of the keys that are no arrow
KeyCodes == {"KeyCode::Up", "KeyCode::Down", "KeyCode::Left", "KeyCode::Right",
             "KeyCode::Space"}

\* Option::None
None == "None"

(***************************************************************************)
(* trait ModuloSigned.                                                     *)
(***************************************************************************)
\* Rust's % on integers: the remainder of the division truncated towards 0
rem(a, n) ==
    IF a >= 0 THEN a % n ELSE -((-a) % n)

\* i16 arithmetic wraps around (two's complement, release build)
I16(v) ==
    ((v - I16_MIN) % 65536) + I16_MIN

modulo_no_add(x, n) ==
    rem(x, n)

\* (self.clone() % n.clone() + n.clone()) % n, at T = i16
modulo(x, n) ==
    rem(I16(rem(x, n) + n), n)

(***************************************************************************)
(* GridPosition and Direction.                                             *)
(***************************************************************************)
GridPosition_new(x, y) ==
    [x |-> x, y |-> y]

GridPosition_random_from_one(max_x, max_y) ==
    {GridPosition_new(i, j) : i \in 1..(max_x - 1), j \in 1..(max_y - 1)}

GridPosition_random_inclusive(max_x, max_y) ==
    {GridPosition_new(i, j) : i \in 0..max_x, j \in 0..max_y}

\* every value rng.gen_range(0, max_x), rng.gen_range(0, max_y) can produce
GridPosition_random(max_x, max_y) ==
    {GridPosition_new(i, j) : i \in 0..(max_x - 1), j \in 0..(max_y - 1)}

new_from_move_no_wrap(pos, d, g) ==
    CASE d = "Up"    -> GridPosition_new(pos.x, pos.y - 1)
      [] d = "Down"  -> GridPosition_new(pos.x, pos.y + 1)
      [] d = "Left"  -> GridPosition_new(pos.x - 1, pos.y)
      [] d = "Right" -> GridPosition_new(pos.x + 1, pos.y)

\* g is the grid size in effect, <<width, height>>
new_from_move(pos, d, g) ==
    CASE d = "Up"    -> GridPosition_new(pos.x, modulo(pos.y - 1, g[2]))
      [] d = "Down"  -> GridPosition_new(pos.x, modulo(pos.y + 1, g[2]))
      [] d = "Left"  -> GridPosition_new(modulo(pos.x - 1, g[1]), pos.y)
      [] d = "Right" -> GridPosition_new(modulo(pos.x + 1, g[1]), pos.y)

inverse(d) ==
    CASE d = "Up"    -> "Down"
      [] d = "Down"  -> "Up"
      [] d = "Left"  -> "Right"
      [] d = "Right" -> "Left"

from_keycode_default_up(key) ==
    CASE key = "KeyCode::Up"    -> "Up"
      [] key = "KeyCode::Down"  -> "Down"
      [] key = "KeyCode::Left"  -> "Left"
      [] key = "KeyCode::Right" -> "Right"
      [] OTHER -> "Up"

\* Direction::from_keycode: Some(direction) for the four arrows, None otherwise
from_keycode(key) ==
    CASE key = "KeyCode::Up"    -> "Up"
      [] key = "KeyCode::Down"  -> "Down"
      [] key = "KeyCode::Left"  -> "Left"
      [] key = "KeyCode::Right" -> "Right"
      [] OTHER -> None

(***************************************************************************)
(* Snake.                                                                  *)
(***************************************************************************)
Snake_new(pos) ==
    [head |-> pos,
     dir |-> "Right",
     last_update_dir |-> "Right",
     body |-> <<GridPosition_new(pos.x - 1, pos.y)>>,
     ate |-> None]

eats(s, f) ==
    s.head = f

eats_self_first_only(s) ==
    Len(s.body) > 0 /\ s.head = s.body[1]

\* Snake::eats_self: the head against every segment of the body
eats_self(s) ==
    \E i \in 1..Len(s.body) : s.head = s.body[i]

pop_front(q) ==
    IF Len(q) = 0 THEN q ELSE Tail(q)

\* LinkedList::pop_back
pop_back(q) ==
    IF Len(q) = 0 THEN q ELSE SubSeq(q, 1, Len(q) - 1)

Snake_update_always_pop(s, f, g) ==
    LET new_head_pos == new_from_move(s.head, s.dir, g)
        pushed == [s EXCEPT !.body = <<s.head>> \o s.body, !.head = new_head_pos]
        judged == [pushed EXCEPT !.ate = IF eats_self(pushed) THEN "Itself"
                                         ELSE IF eats(pushed, f) THEN "Food"
                                         ELSE None]
        moved == [judged EXCEPT !.body = pop_back(judged.body)]
    IN  [moved EXCEPT !.last_update_dir = moved.dir]

Snake_update_never_pop(s, f, g) ==
    LET new_head_pos == new_from_move(s.head, s.dir, g)
        pushed == [s EXCEPT !.body = <<s.head>> \o s.body, !.head = new_head_pos]
        judged == [pushed EXCEPT !.ate = IF eats_self(pushed) THEN "Itself"
                                         ELSE IF eats(pushed, f) THEN "Food"
                                         ELSE None]
    IN  [judged EXCEPT !.last_update_dir = judged.dir]

Snake_update_food_first(s, f, g) ==
    LET new_head_pos == new_from_move(s.head, s.dir, g)
        pushed == [s EXCEPT !.body = <<s.head>> \o s.body, !.head = new_head_pos]
        judged == [pushed EXCEPT !.ate = IF eats(pushed, f) THEN "Food"
                                         ELSE IF eats_self(pushed) THEN "Itself"
                                         ELSE None]
        moved == IF judged.ate = None
                 THEN [judged EXCEPT !.body = pop_back(judged.body)]
                 ELSE judged
    IN  [moved EXCEPT !.last_update_dir = moved.dir]

Snake_update_check_after_pop(s, f, g) ==
    LET new_head_pos == new_from_move(s.head, s.dir, g)
        pushed == [s EXCEPT !.body = <<s.head>> \o s.body, !.head = new_head_pos]
        moved == IF eats(pushed, f)
                 THEN pushed
                 ELSE [pushed EXCEPT !.body = pop_back(pushed.body)]
        judged == [moved EXCEPT !.ate = IF eats_self(moved) THEN "Itself"
                                        ELSE IF eats(moved, f) THEN "Food"
                                        ELSE None]
    IN  [judged EXCEPT !.last_update_dir = judged.dir]

Snake_update_pop_unless_food(s, f, g) ==
    LET new_head_pos == new_from_move(s.head, s.dir, g)
        pushed == [s EXCEPT !.body = <<s.head>> \o s.body, !.head = new_head_pos]
        judged == [pushed EXCEPT !.ate = IF eats_self(pushed) THEN "Itself"
                                         ELSE IF eats(pushed, f) THEN "Food"
                                         ELSE None]
        moved == IF judged.ate # "Food"
                 THEN [judged EXCEPT !.body = pop_back(judged.body)]
                 ELSE judged
    IN  [moved EXCEPT !.last_update_dir = moved.dir]

\* Snake::update(&mut self, food), on a grid of size g
Snake_update(s, f, g) ==
    LET new_head_pos == new_from_move(s.head, s.dir, g)
        pushed == [s EXCEPT !.body = <<s.head>> \o s.body, !.head = new_head_pos]
        judged == [pushed EXCEPT !.ate = IF eats_self(pushed) THEN "Itself"
                                         ELSE IF eats(pushed, f) THEN "Food"
                                         ELSE None]
        moved == IF judged.ate = None
                 THEN [judged EXCEPT !.body = pop_back(judged.body)]
                 ELSE judged
    IN  [moved EXCEPT !.last_update_dir = moved.dir]

(***************************************************************************)
(* GameState.                                                              *)
(***************************************************************************)
VARIABLES
    grid,        \* the grid size the session runs on, <<width, height>>
    snake,       \* GameState.snake
    food,        \* GameState.food.pos
    gameover,    \* GameState.gameover
    elapsed,     \* Instant::now() - GameState.last_update, in ms
    since_move,  \* ms since Snake::update last ran (since construction before it
                 \* ever ran), saturating at MaxElapsed
    ev,          \* what the latest step did
    eaten,       \* how many updates of the snake have recorded Ate::Food
    horizon,     \* how many more updates of the snake are followed, or Unbounded
    calc         \* a call of a pure function under evaluation: its arguments and result

vars == <<grid, snake, food, gameover, elapsed, since_move, ev, eaten, horizon, calc>>

Unbounded == 0 - 1

\* no pure function is under evaluation
Idle == [fn |-> "none"]

\* moved: the step ran Snake::update; spawned: how often it called
\* GridPosition::random; intervals: how many whole tick intervals a poll found
\* elapsed since last_update (0 for a step that is no poll)
Event(moved, spawned, intervals) ==
    [moved |-> moved, spawned |-> spawned, intervals |-> intervals]

\* GameState::new() on a grid of size g
GameState_new(g) ==
    /\ grid = g
    /\ snake = Snake_new(GridPosition_new(g[1] \div 4, g[2] \div 2))
    /\ food \in GridPosition_random(g[1], g[2])
    /\ gameover = FALSE
    /\ elapsed = 0
    /\ since_move = 0
    /\ eaten = 0
    /\ ev = Event(FALSE, 1, 0)

\* the session on the scaled-down grid, followed without a horizon, and the
\* session on the 30 x 20 grid of the program, followed for Horizon updates
Init ==
    /\ \/ GameState_new(<<GridW, GridH>>) /\ horizon = Unbounded
       \/ GameState_new(GRID_SIZE) /\ horizon = Horizon
    /\ calc = Idle

\* the instants the clock is read at, relative to last_update
Instants == {MILLIS_PER_UPDATE - 1, MILLIS_PER_UPDATE, MaxElapsed}

Min(a, b) == IF a <= b THEN a ELSE b

\* time passes between two calls of the event loop
Clock ==
    \E t \in Instants :
        /\ t > elapsed
        /\ elapsed' = t
        /\ since_move' = Min(since_move + (t - elapsed), MaxElapsed)
        /\ ev' = Event(FALSE, 0, 0)
        /\ UNCHANGED <<grid, snake, food, gameover, eaten, horizon, calc>>

gate_open_early(e) ==
    e >= MILLIS_PER_UPDATE - 1

\* Instant::now() - self.last_update >= Duration::from_millis(MILLIS_PER_UPDATE)
gate_open(e) ==
    e >= MILLIS_PER_UPDATE

game_running_always(over) ==
    TRUE

\* if !self.gameover
game_running(over) ==
    ~over

\* EventHandler::update: one poll of the event loop. The handler reads
\* Instant::now() twice, for the gate and, after the update, for last_update;
\* elapsed is measured from the second reading, so it is 0 when the handler
\* returns, and since_move, counted from there, is never more than the time
\* between the two updates themselves.
Update ==
    IF gate_open(elapsed)
    THEN /\ IF game_running(gameover)
            THEN /\ horizon # 0
                 /\ horizon' = IF horizon = Unbounded THEN horizon ELSE horizon - 1
                 /\ snake' = Snake_update(snake, food, grid)
                 /\ snake'.ate = "Itself" \/ Len(snake'.body) <= MaxBody
                 /\ eaten' = IF snake'.ate = "Food" THEN eaten + 1 ELSE eaten
                 /\ IF snake'.ate = "Food"
                    THEN /\ food' \in GridPosition_random(grid[1], grid[2])
                         /\ gameover' = gameover
                    ELSE /\ food' = food
                         /\ gameover' = IF snake'.ate = "Itself" THEN TRUE ELSE gameover
                 /\ since_move' = 0
                 /\ ev' = Event(TRUE, IF snake'.ate = "Food" THEN 1 ELSE 0,
                                elapsed \div MILLIS_PER_UPDATE)
            ELSE /\ UNCHANGED <<snake, food, gameover, since_move, eaten, horizon>>
                 /\ ev' = Event(FALSE, 0, elapsed \div MILLIS_PER_UPDATE)
         /\ elapsed' = 0
         /\ UNCHANGED <<grid, calc>>
    ELSE /\ ev' = Event(FALSE, 0, 0)
         /\ UNCHANGED <<grid, snake, food, gameover, elapsed, since_move, eaten, horizon, calc>>

accepts_against_dir(d, s) ==
    inverse(d) # s.dir

\* if dir.inverse() != self.snake.last_update_dir
accepts(d, s) ==
    inverse(d) # s.last_update_dir

\* EventHandler::key_down_event(keycode)
key_down_event(keycode) ==
    /\ UNCHANGED <<elapsed, since_move, grid, food, gameover, eaten, horizon, calc>>
    /\ LET d == from_keycode(keycode)
       IN  IF d # None /\ accepts(d, snake)
           THEN snake' = [snake EXCEPT !.dir = d]
           ELSE snake' = snake
    /\ ev' = Event(FALSE, 0, 0)

KeyDown ==
    \E keycode \in KeyCodes : key_down_event(keycode)

Next ==
    \/ Clock
    \/ Update
    \/ KeyDown

Spec == Init /\ [][Next]_vars

\* the same sessions with the scaled-down grid made square, GridW cells each
\* way, so that neither axis is shorter than four cells
InitSquare ==
    /\ \/ GameState_new(<<GridW, GridW>>) /\ horizon = Unbounded
       \/ GameState_new(GRID_SIZE) /\ horizon = Horizon
    /\ calc = Idle

SpecSquare == InitSquare /\ [][Next]_vars

(***************************************************************************)
(* Vocabulary of the properties.                                           *)
(***************************************************************************)
\* the step ran Snake::update: a poll with the gate open and the game running
SnakeUpdated ==
    ev'.moved

\* the step is a poll of EventHandler::update
Polled ==
    Update

\* the key that from_keycode maps to the direction d
ArrowKey(d) ==
    CASE d = "Up"    -> "KeyCode::Up"
      [] d = "Down"  -> "KeyCode::Down"
      [] d = "Left"  -> "KeyCode::Left"
      [] d = "Right" -> "KeyCode::Right"

\* the two directions at a right angle to d
Perpendicular(d) ==
    Directions \ {d, inverse(d)}

OnProgramGrid ==
    grid = GRID_SIZE

(***************************************************************************)
(* The grid arithmetic on its own: modulo on integers of either sign, and  *)
(* new_from_move on every cell of the 30 x 20 grid of the program.         *)
(***************************************************************************)
\* the arguments modulo is evaluated on: around 0, and at the ends of i16
ModuloArgs == (-MaxX..MaxX) \cup {I16_MIN, I16_MIN + 1, I16_MAX - 1, I16_MAX}

InitGridMath ==
    /\ grid = GRID_SIZE
    /\ snake = Snake_new(GridPosition_new(GRID_SIZE[1] \div 4, GRID_SIZE[2] \div 2))
    /\ food = GridPosition_new(0, 0)
    /\ gameover = FALSE
    /\ elapsed = 0
    /\ since_move = 0
    /\ eaten = 0
    /\ horizon = 0
    /\ ev = Event(FALSE, 1, 0)
    /\ \/ \E x \in ModuloArgs, n \in 1..MaxN :
              calc = [fn |-> "modulo", x |-> x, n |-> n, calls |-> 0, r |-> 0, rr |-> 0]
       \/ \E pos \in GridPosition_random(GRID_SIZE[1], GRID_SIZE[2]), d \in Directions :
              calc = [fn |-> "new_from_move", pos |-> pos, dir |-> d, calls |-> 0, out |-> pos]

\* r = x.modulo(n)
ApplyModulo ==
    /\ calc.fn = "modulo"
    /\ calc.calls = 0
    /\ calc' = [calc EXCEPT !.calls = 1, !.r = modulo(calc.x, calc.n)]
    /\ UNCHANGED <<grid, snake, food, gameover, elapsed, since_move, ev, eaten, horizon>>

\* rr = r.modulo(n)
ApplyModuloAgain ==
    /\ calc.fn = "modulo"
    /\ calc.calls = 1
    /\ calc' = [calc EXCEPT !.calls = 2, !.rr = modulo(calc.r, calc.n)]
    /\ UNCHANGED <<grid, snake, food, gameover, elapsed, since_move, ev, eaten, horizon>>

\* out = GridPosition::new_from_move(pos, dir)
ApplyMove ==
    /\ calc.fn = "new_from_move"
    /\ calc.calls = 0
    /\ calc' = [calc EXCEPT !.calls = 1, !.out = new_from_move(calc.pos, calc.dir, grid)]
    /\ UNCHANGED <<grid, snake, food, gameover, elapsed, since_move, ev, eaten, horizon>>

NextGridMath ==
    \/ ApplyModulo
    \/ ApplyModuloAgain
    \/ ApplyMove

SpecGridMath == InitGridMath /\ [][NextGridMath]_vars

(***************************************************************************)
(* Properties of the session.                                              *)
(***************************************************************************)
\* C1: direction-reversal guard. An update of the snake commits the direction
\* current when it runs, and that direction is never the inverse of the one the
\* update before it committed: an input of the inverse of the last committed
\* direction leaves the current direction as it was, an input of either
\* perpendicular direction becomes the current direction, and nothing but an
\* input changes the current direction between two updates.
C1_ReversalGuard ==
    [][/\ SnakeUpdated =>
            /\ snake'.last_update_dir = snake.dir
            /\ snake'.last_update_dir # inverse(snake.last_update_dir)
            /\ snake'.dir = snake.dir
       /\ key_down_event(ArrowKey(inverse(snake.last_update_dir))) => snake'.dir = snake.dir
       /\ \A d \in Perpendicular(snake.last_update_dir) :
            key_down_event(ArrowKey(d)) => snake'.dir = d
       /\ Clock => snake'.dir = snake.dir
      ]_vars

\* an update has just committed Down, a turn off the horizontal move before it
C1_Witness ==
    /\ ev.moved
    /\ snake.last_update_dir = "Down"
    /\ Len(snake.body) >= 2
    /\ snake.body[2].y = snake.body[1].y
    /\ snake.body[2].x # snake.body[1].x

\* C2: game over is irreversible. Once gameover is true it is true after every
\* step, and a poll of update made while it is true, whatever time has elapsed,
\* leaves the head, the body, the eat outcome, the last committed direction and
\* the food where they were.
C2_GameOverIrreversible ==
    [][gameover =>
          /\ gameover'
          /\ Polled =>
                /\ snake'.head = snake.head
                /\ snake'.body = snake.body
                /\ snake'.ate = snake.ate
                /\ snake'.last_update_dir = snake.last_update_dir
                /\ food' = food
      ]_vars

\* the game is over and a poll made a full interval or more after the collision
\* has just reset last_update
C2_Witness ==
    /\ gameover
    /\ elapsed = 0
    /\ since_move >= MILLIS_PER_UPDATE
    /\ ~ev.moved

\* C3 as stated: once the game is over no step changes the snake or the food.
C3_NothingChangesAfterOver ==
    [][gameover => snake' = snake /\ food' = food]_vars

\* C3, amended: once the game is over no step changes the head, the body, the
\* last committed direction, the eat outcome or the food; a poll of update
\* leaves the current direction too; an input still sets the current direction
\* to any direction that is not the inverse of the last committed one.
C3_TerminalFrame ==
    [][gameover =>
          /\ snake'.head = snake.head
          /\ snake'.body = snake.body
          /\ snake'.last_update_dir = snake.last_update_dir
          /\ snake'.ate = snake.ate
          /\ food' = food
          /\ Polled => snake'.dir = snake.dir
          /\ \A d \in Directions \ {inverse(snake.last_update_dir)} :
                key_down_event(ArrowKey(d)) => snake'.dir = d
      ]_vars

\* the game is over and an input has since turned the current direction away
\* from the direction the colliding update committed
C3_Witness ==
    /\ gameover
    /\ snake.ate = "Itself"
    /\ snake.dir # snake.last_update_dir

\* C4: eating food. An update whose new head cell holds the food and no body
\* segment records Food, makes the body exactly one segment longer and draws
\* exactly one new food position in that poll; an update that records nothing
\* or Itself draws none and leaves the food where it is.
C4_EatingFood ==
    [][SnakeUpdated =>
          LET stepped == new_from_move(snake.head, snake.dir, grid)
          IN  /\ (/\ stepped = food
                  /\ stepped # snake.head
                  /\ \A i \in 1..Len(snake.body) : snake.body[i] # stepped)
                 => /\ snake'.ate = "Food"
                    /\ Len(snake'.body) = Len(snake.body) + 1
                    /\ ev'.spawned = 1
              /\ snake'.ate # "Food" => ev'.spawned = 0 /\ food' = food
      ]_vars

\* an update has just eaten the first food: two body segments, one respawn
C4_Witness ==
    /\ ev.moved
    /\ snake.ate = "Food"
    /\ ev.spawned = 1
    /\ Len(snake.body) = 2
    /\ eaten = 1

\* the body length Snake::new gives
InitialLength ==
    Len(Snake_new(GridPosition_new(0, 0)).body)

\* C5: while no update has recorded Food, however many updates have run, the
\* body has the length it started with.
C5_NoFoodNoGrowth ==
    eaten = 0 => Len(snake.body) = InitialLength

\* without eating, the snake has run to the right edge and wrapped to column 0
C5_Witness ==
    /\ eaten = 0
    /\ ev.moved
    /\ snake.last_update_dir = "Right"
    /\ snake.head.x = 0
    /\ Len(snake.body) = 1

\* the cell next to pos in direction d on the torus of the grid in effect
Neighbour(pos, d) ==
    CASE d = "Up"    -> [x |-> pos.x, y |-> IF pos.y = 0 THEN grid[2] - 1 ELSE pos.y - 1]
      [] d = "Down"  -> [x |-> pos.x, y |-> IF pos.y = grid[2] - 1 THEN 0 ELSE pos.y + 1]
      [] d = "Left"  -> [x |-> IF pos.x = 0 THEN grid[1] - 1 ELSE pos.x - 1, y |-> pos.y]
      [] d = "Right" -> [x |-> IF pos.x = grid[1] - 1 THEN 0 ELSE pos.x + 1, y |-> pos.y]

\* the start of a session: the head a quarter across and half way down, one body
\* segment to its left, heading Right, not over; on the 30 x 20 grid (7,10), (6,10)
StartState ==
    /\ snake.head = [x |-> grid[1] \div 4, y |-> grid[2] \div 2]
    /\ snake.body = <<[x |-> snake.head.x - 1, y |-> snake.head.y]>>
    /\ snake.dir = "Right"
    /\ ~gameover
    /\ OnProgramGrid =>
          /\ snake.head = [x |-> 7, y |-> 10]
          /\ snake.body = <<[x |-> 6, y |-> 10]>>

\* C6: steady move. The session starts in StartState, and an update that
\* records nothing puts the head on the toroidal neighbour of the old head in
\* the current direction and makes the body the old head followed by the old
\* body without its last segment; from the start on the 30 x 20 grid that is
\* head (8,10) and body [(7,10)].
C6_SteadyMove ==
    /\ StartState
    /\ [][SnakeUpdated /\ snake'.ate = None =>
             /\ snake'.head = Neighbour(snake.head, snake.dir)
             /\ snake'.body = <<snake.head>> \o SubSeq(snake.body, 1, Len(snake.body) - 1)
             /\ (OnProgramGrid /\ StartState) =>
                   /\ snake'.head = [x |-> 8, y |-> 10]
                   /\ snake'.body = <<[x |-> 7, y |-> 10]>>
         ]_vars

\* on the 30 x 20 grid the first update has run with no food at (8,10)
C6_Witness ==
    /\ OnProgramGrid
    /\ ev.moved
    /\ snake.ate = None
    /\ snake.head = [x |-> 8, y |-> 10]
    /\ snake.body = <<[x |-> 7, y |-> 10]>>

\* C7: clock gate. A poll runs the snake's update only when at least
\* MILLIS_PER_UPDATE (125) ms have elapsed since last_update; it then runs it
\* once, moving the head by one cell however many intervals have elapsed, and
\* sets last_update to now, so that an update is never less than one interval
\* after the update before it; a poll that comes earlier changes nothing.
C7_ClockGate ==
    [][/\ SnakeUpdated =>
            /\ elapsed >= MILLIS_PER_UPDATE
            /\ since_move >= MILLIS_PER_UPDATE
            /\ elapsed' = 0
            /\ snake'.head = Neighbour(snake.head, snake.dir)
            /\ Len(snake'.body) <= Len(snake.body) + 1
       /\ Polled =>
            IF elapsed >= MILLIS_PER_UPDATE
            THEN elapsed' = 0 /\ (~gameover => ev'.moved)
            ELSE UNCHANGED <<snake, food, gameover, elapsed>>
      ]_vars

\* an update has just run at a poll that found two or more intervals elapsed
C7_Witness ==
    /\ ev.moved
    /\ ev.intervals >= 2
    /\ elapsed = 0
    /\ since_move = 0

InRange(pos) ==
    /\ pos.x \in 0..(grid[1] - 1)
    /\ pos.y \in 0..(grid[2] - 1)

InGrid ==
    /\ InRange(snake.head)
    /\ \A i \in 1..Len(snake.body) : InRange(snake.body[i])
    /\ InRange(food)

\* a move off either end of the head's row or column comes back in at the other
\* end; at the start on the 30 x 20 grid, Right from (29,10) gives (0,10)
EdgesWrap ==
    LET w == grid[1]
        h == grid[2]
        x == snake.head.x
        y == snake.head.y
    IN  /\ new_from_move([x |-> w - 1, y |-> y], "Right", grid) = [x |-> 0, y |-> y]
        /\ new_from_move([x |-> 0, y |-> y], "Left", grid) = [x |-> w - 1, y |-> y]
        /\ new_from_move([x |-> x, y |-> h - 1], "Down", grid) = [x |-> x, y |-> 0]
        /\ new_from_move([x |-> x, y |-> 0], "Up", grid) = [x |-> x, y |-> h - 1]

\* C9: grid containment with wrap-around. In every reachable state the head,
\* every body segment and the food lie on the grid; a move off an edge of the
\* grid lands on the opposite edge of the same row or column, and so does the
\* head in an update that steps off an edge.
C9_GridContainment ==
    /\ [](InGrid /\ EdgesWrap)
    /\ [][SnakeUpdated =>
             /\ (snake.dir = "Right" /\ snake.head.x = grid[1] - 1)
                    => snake'.head = [x |-> 0, y |-> snake.head.y]
             /\ (snake.dir = "Left" /\ snake.head.x = 0)
                    => snake'.head = [x |-> grid[1] - 1, y |-> snake.head.y]
             /\ (snake.dir = "Down" /\ snake.head.y = grid[2] - 1)
                    => snake'.head = [x |-> snake.head.x, y |-> 0]
             /\ (snake.dir = "Up" /\ snake.head.y = 0)
                    => snake'.head = [x |-> snake.head.x, y |-> grid[2] - 1]
         ]_vars

\* an update has just stepped off the left edge and come back in at the right
C9_Witness ==
    /\ ev.moved
    /\ snake.last_update_dir = "Left"
    /\ snake.head.x = grid[1] - 1
    /\ snake.body[1].x = 0
    /\ snake.body[1].y = snake.head.y

\* C10 as stated: an update that records Food leaves the food on another cell
\* than the one it was eaten on.
C10_FoodMovesAway ==
    [][SnakeUpdated /\ snake'.ate = "Food" => food' # food]_vars

\* the next update will eat the food, and the model follows it
AboutToEat ==
    /\ gate_open(elapsed)
    /\ game_running(gameover)
    /\ horizon # 0
    /\ Len(snake.body) < MaxBody
    /\ food = Neighbour(snake.head, snake.dir)
    /\ \A i \in 1..Len(snake.body) : snake.body[i] # food

\* C10, amended: an update that records Food draws the food position anew, once,
\* from the whole grid: the food is then on some cell of the grid, and every cell
\* is a possible outcome, the cell it was just eaten on included.
C10_FoodRedrawn ==
    /\ [](AboutToEat =>
             \A c \in {food, snake.head, GridPosition_new(0, 0),
                       GridPosition_new(grid[1] - 1, grid[2] - 1)} :
                 ENABLED (Update /\ snake'.ate = "Food" /\ food' = c))
    /\ [][SnakeUpdated /\ snake'.ate = "Food" => ev'.spawned = 1 /\ InRange(food')]_vars

\* an update has just eaten the food and the new food is on the very cell the
\* old one was eaten on, where the head now is
C10_Witness ==
    /\ ev.moved
    /\ snake.ate = "Food"
    /\ ev.spawned = 1
    /\ food = snake.head

\* C11: queued direction inputs. An input of the direction d becomes the current
\* direction exactly when inverse(d) differs from the last committed direction,
\* whatever the current direction is at that moment; a rejected input leaves the
\* current direction as it was, no input touches the last committed direction,
\* and the next update of the snake commits the current direction, which is the
\* last accepted input if there was one.
C11_QueuedInputs ==
    [][/\ \A d \in Directions :
            \/ /\ snake'.dir = IF inverse(d) # snake.last_update_dir THEN d ELSE snake.dir
               /\ snake'.last_update_dir = snake.last_update_dir
            \/ ~key_down_event(ArrowKey(d))
       /\ SnakeUpdated => snake'.last_update_dir = snake.dir
      ]_vars

\* the last update committed Right and an input of Down has been accepted since,
\* be it the first input or one that replaced an accepted Up
C11_Witness ==
    /\ ~ev.moved
    /\ snake.last_update_dir = "Right"
    /\ snake.dir = "Down"
    /\ ~gameover

\* C12: head/body disjointness. The head is on the cell of a body segment only
\* in the state an update that recorded Itself produced, which is a state where
\* the game is over; whenever gameover is false the head is on no body segment.
C12_HeadOffBody ==
    /\ eats_self(snake) => snake.ate = "Itself" /\ gameover
    /\ ~gameover => \A i \in 1..Len(snake.body) : snake.head # snake.body[i]

\* the update that detected the self-collision has just run: the head is on a
\* segment of a body that kept its tail
C12_Witness ==
    /\ ev.moved
    /\ gameover
    /\ snake.ate = "Itself"
    /\ \E i \in 2..Len(snake.body) : snake.head = snake.body[i]

\* C13: collision priority. When the cell the head moves to holds both a body
\* segment and the food, the update records Itself and not Food, the game is
\* over after it, and the food is not drawn anew: it stays where it was and the
\* count of foods eaten does not move.
C13_SelfBeforeFood ==
    [][/\ SnakeUpdated
       /\ food = Neighbour(snake.head, snake.dir)
       /\ \E i \in 1..Len(snake.body) : snake.body[i] = food
       => /\ snake'.ate = "Itself"
          /\ gameover'
          /\ food' = food
          /\ ev'.spawned = 0
          /\ eaten' = eaten
      ]_vars

\* the head has just run into a body segment on the cell where the food lies
C13_Witness ==
    /\ ev.moved
    /\ gameover
    /\ snake.ate = "Itself"
    /\ food = snake.head
    /\ \E i \in 2..Len(snake.body) : snake.body[i] = food

\* C14: tail-chasing counts as a collision. An update that moves the head to
\* the cell of the last body segment records Itself and ends the game: the test
\* runs on the body with the old head pushed and the tail still in place, so
\* after the update the tail is still there, under the head.
C14_TailChase ==
    [][/\ SnakeUpdated
       /\ Neighbour(snake.head, snake.dir) = snake.body[Len(snake.body)]
       => /\ snake'.ate = "Itself"
          /\ gameover'
          /\ Len(snake'.body) = Len(snake.body) + 1
          /\ snake'.body[Len(snake'.body)] = snake'.head
      ]_vars

\* the head has just moved onto the tail of a body of three or more segments;
\* no other segment is on that cell
C14_Witness ==
    /\ ev.moved
    /\ gameover
    /\ Len(snake.body) >= 3
    /\ snake.head = snake.body[Len(snake.body)]
    /\ \A i \in 1..(Len(snake.body) - 1) : snake.body[i] # snake.head

\* C15: per-update length change. An update of the snake leaves the body length
\* as it was when it records None and adds exactly one segment when it records
\* Food or Itself; every other step (a poll that does not update, a key, the
\* passing of time) leaves the length alone, so the length never decreases and
\* never grows by more than one.
C15_LengthChange ==
    [][Len(snake'.body) - Len(snake.body) =
           IF SnakeUpdated /\ snake'.ate # None THEN 1 ELSE 0]_vars

\* the update that ran into the body has kept the tail: the body has its initial
\* length, one segment for each food eaten, and one more for the collision
C15_Witness ==
    /\ ev.moved
    /\ snake.ate = "Itself"
    /\ eaten >= 1
    /\ Len(snake.body) = InitialLength + eaten + 1

\* C16: input frame condition. Handling a key never changes the head, the body,
\* the last committed direction, the recorded eat outcome, the food, gameover or
\* the time since last_update; the current direction is all it may change, and
\* it does not change that either when the key is not an arrow or is the arrow
\* of the inverse of the last committed direction.
C16_InputFrame ==
    [][/\ \/ /\ elapsed' = elapsed
             /\ gameover' = gameover
             /\ food' = food
             /\ snake'.head = snake.head
             /\ snake'.body = snake.body
             /\ snake'.last_update_dir = snake.last_update_dir
             /\ snake'.ate = snake.ate
          \/ ~KeyDown
       /\ \/ snake'.dir = snake.dir
          \/ \A k \in KeyCodes :
                \/ \E d \in Directions :
                      k = ArrowKey(d) /\ inverse(d) # snake.last_update_dir
                \/ ~key_down_event(k)
      ]_vars

\* a key has turned the snake between two updates: the update before it ate
\* the food, and the outcome, the grown body and the running clock are still
\* as that update left them
C16_Witness ==
    /\ ~ev.moved
    /\ snake.dir # snake.last_update_dir
    /\ snake.ate = "Food"
    /\ Len(snake.body) = InitialLength + eaten
    /\ elapsed > 0
    /\ elapsed < MILLIS_PER_UPDATE

\* the cells the snake is on once the update that eats the food has run: the
\* cell the head moves to, the cell it leaves, and those of the body
CellsAfterEating ==
    {Neighbour(snake.head, snake.dir), snake.head}
        \cup {snake.body[i] : i \in 1..Len(snake.body)}

\* C17: the food is drawn anew with no exclusion of the cells the snake is on.
\* Whenever the next update eats the food, each cell the snake occupies after
\* that update is a possible position of the new food, with the game not over;
\* so states where the food lies under the head or under a body segment of a
\* running game are reachable.
C17_FoodOnSnake ==
    [](AboutToEat =>
          \A c \in CellsAfterEating :
              ENABLED (Update /\ snake'.ate = "Food" /\ ~gameover' /\ food' = c))

\* the game is running and the food drawn by the last update lies under a body
\* segment other than the one the head just left
C17_Witness ==
    /\ ~gameover
    /\ ev.moved
    /\ ev.spawned = 1
    /\ \E i \in 2..Len(snake.body) : food = snake.body[i]

\* neither axis of the grid is shorter than four cells
WideGrid ==
    grid[1] >= 4 /\ grid[2] >= 4

\* C18: on a grid at least four cells wide and four cells high, no update
\* records Itself while the body before it has fewer than three segments; the
\* body starts with one segment and gains one per food, so gameover is never
\* true before two foods have been eaten.
C18_NoEarlyCollision ==
    /\ [](WideGrid /\ gameover => eaten >= 2 /\ Len(snake.body) >= 4)
    /\ [][WideGrid /\ SnakeUpdated /\ Len(snake.body) < 3
              => snake'.ate # "Itself"]_vars

\* the earliest collision there is: on a wide grid, right after the second
\* food, the snake has run into a body that had three segments
C18_Witness ==
    /\ WideGrid
    /\ ev.moved
    /\ gameover
    /\ eaten = 2
    /\ Len(snake.body) = 4

\* q is one step from p on the torus of the grid in effect, along one axis
Adjacent(p, q) ==
    \E d \in Directions : q = Neighbour(p, d)

\* C19: the snake is a connected chain. In every reachable state the body has
\* a first segment, that segment is one step from the head on the torus, and
\* every body segment is one step from the segment after it.
C19_ConnectedChain ==
    /\ Len(snake.body) >= 1
    /\ Adjacent(snake.head, snake.body[1])
    /\ \A i \in 1..(Len(snake.body) - 1) : Adjacent(snake.body[i], snake.body[i + 1])

\* a snake of four cells with a turn in its body, whose head has just crossed
\* the right edge of the grid and is linked to the body through the wrap
C19_Witness ==
    /\ ev.moved
    /\ Len(snake.body) = 3
    /\ snake.head.x = 0
    /\ snake.body[1].x = grid[1] - 1
    /\ snake.body[2].y # snake.body[1].y

\* the body segments are on pairwise distinct cells
BodyDistinct ==
    \A i, j \in 1..Len(snake.body) : i < j => snake.body[i] # snake.body[j]

\* C20: in every reachable state, game-over states included, the body segments
\* occupy pairwise distinct cells; the head is on the cell of at most one body
\* segment, and of one only after an update recorded Itself.
C20_BodyCellsDistinct ==
    /\ BodyDistinct
    /\ Cardinality({i \in 1..Len(snake.body) : snake.body[i] = snake.head}) <= 1
    /\ (\E i \in 1..Len(snake.body) : snake.body[i] = snake.head)
           => snake.ate = "Itself"

\* the game is over with the head inside the body, on a segment that is neither
\* the first nor the last; the body cells are still all different
C20_Witness ==
    /\ gameover
    /\ \E i \in 2..(Len(snake.body) - 1) : snake.body[i] = snake.head
    /\ elapsed > 0

\* C21: session and snake agree on termination. In every reachable state
\* gameover is true exactly when the eat outcome the snake recorded is Itself,
\* and once Itself is recorded no step replaces it by another outcome.
C21_OverIffAteItself ==
    /\ [](gameover <=> snake.ate = "Itself")
    /\ [][snake.ate = "Itself" => snake'.ate = "Itself"]_vars

\* the game ended on a collision, a key has turned the current direction since,
\* and a poll a full interval or more later has just reset last_update: the
\* outcome Itself is still the one recorded
C21_Witness ==
    /\ gameover
    /\ snake.ate = "Itself"
    /\ ~ev.moved
    /\ ev.intervals >= 1
    /\ snake.dir # snake.last_update_dir

====
